---- MODULE Spec2Model ----
(***************************************************************************)
(* A model of florajs/datasource-solr (src/index.js, lines 1-363): the     *)
(* value escaper, the filter compiler and DataSource.process.              *)
(*                                                                         *)
(* JavaScript strings are sequences of one-character strings, so that      *)
(* escaping, joining and wrapping are computed character by character.     *)
(* JavaScript values are tagged records:                                   *)
(*   [t |-> "str", s |-> chars]   [t |-> "num", n |-> Nat]                 *)
(*   [t |-> "bool", b |-> BOOLEAN] [t |-> "arr", a |-> sequence of values] *)
(*   [t |-> "undef"]                                                       *)
(***************************************************************************)
EXTENDS Naturals, Integers, Sequences, FiniteSets, TLC

VARIABLES
    engine,     \* which Array.prototype.sort the runtime ships (see Sort2)
    pc,         \* position of the operation under analysis
    input,      \* argument of escape(): [value, exposeSolrSyntax]
    output,     \* value returned by escape()
    filter,     \* FilterExpression handed to buildSolrFilterString
    compiled,   \* what buildSolrFilterString returned or threw
    request,    \* the caller's request object, which process() reads and writes
    urls,       \* this._urls: per server, the index the generator yields next
    queries,    \* this._status: how often 'dataSourceQueries' was incremented
    calls,      \* one record per process() call, in invocation order
    sent,       \* the HTTP requests handed to http.request, in order
    http        \* per process() call, what has happened to its HTTP request

vars == <<engine, pc, input, output, filter, compiled, request, urls, queries, calls, sent, http>>

(***************************************************************************)
(* JavaScript values and string conversion                                 *)
(***************************************************************************)
Str(chars) == [t |-> "str", s |-> chars]
Num(k) == [t |-> "num", n |-> k]
Bool(v) == [t |-> "bool", b |-> v]
Arr(elems) == [t |-> "arr", a |-> elems]
Undefined == [t |-> "undef"]

DigitChars == <<"0", "1", "2", "3", "4", "5", "6", "7", "8", "9">>

RECURSIVE NumStr(_)
NumStr(k) ==
    IF k < 10 THEN <<DigitChars[k + 1]>>
    ELSE NumStr(k \div 10) \o <<DigitChars[(k % 10) + 1]>>

RECURSIVE Join(_, _)
\* Array.prototype.join on an array of strings
Join(strs, sep) ==
    IF Len(strs) = 0 THEN <<>>
    ELSE IF Len(strs) = 1 THEN strs[1]
    ELSE strs[1] \o sep \o Join(Tail(strs), sep)

RECURSIVE ToStr(_)
\* String(value), as string concatenation applies it
ToStr(v) ==
    CASE v.t = "str" -> v.s
      [] v.t = "num" -> NumStr(v.n)
      [] v.t = "bool" -> IF v.b THEN <<"t", "r", "u", "e">> ELSE <<"f", "a", "l", "s", "e">>
      [] v.t = "arr" -> Join([i \in 1..Len(v.a) |-> ToStr(v.a[i])], <<",">>)
      [] OTHER -> <<"u", "n", "d", "e", "f", "i", "n", "e", "d">>

\* value[i] of a JavaScript array (0-based in the source, 1-based here)
At(v, i) == IF i <= Len(v.a) THEN v.a[i] ELSE Undefined

\* Array.prototype.join: undefined elements render as the empty string
ArrJoin(v, sep) ==
    Join([i \in 1..Len(v.a) |-> IF v.a[i].t = "undef" THEN <<>> ELSE ToStr(v.a[i])], sep)

(***************************************************************************)
(* Value Escaper: src/index.js lines 77-109                                *)
(***************************************************************************)
UpperLetters == <<"A", "B", "C", "D", "E", "F", "G", "H", "I", "J", "K", "L", "M",
                  "N", "O", "P", "Q", "R", "S", "T", "U", "V", "W", "X", "Y", "Z">>
LowerLetters == <<"a", "b", "c", "d", "e", "f", "g", "h", "i", "j", "k", "l", "m",
                  "n", "o", "p", "q", "r", "s", "t", "u", "v", "w", "x", "y", "z">>

\* the regular expression class \w
WordChars ==
    {UpperLetters[i] : i \in 1..26} \cup {LowerLetters[i] : i \in 1..26}
        \cup {DigitChars[i] : i \in 1..10} \cup {"_"}

toLowerCase(c) ==
    IF \E i \in 1..26 : UpperLetters[i] = c
    THEN LowerLetters[CHOOSE i \in 1..26 : UpperLetters[i] = c]
    ELSE c

\* the alternation (AND|NOT|OR), in the order the regular expression tries it
ReservedKeywords == <<<<"A", "N", "D">>, <<"N", "O", "T">>, <<"O", "R">>>>

IsWordAt(s, i) == i >= 1 /\ i <= Len(s) /\ s[i] \in WordChars

\* \b between s[i-1] and s[i]
WordBoundary(s, i) == IsWordAt(s, i - 1) # IsWordAt(s, i)

\* mutant: the pattern without its two \b assertions
KeywordMatches_anywhere(s, i, kw) ==
    /\ i + Len(kw) - 1 <= Len(s)
    /\ SubSeq(s, i, i + Len(kw) - 1) = kw

\* /\b(kw)\b/ matches at position i
KeywordMatches(s, i, kw) ==
    /\ i + Len(kw) - 1 <= Len(s)
    /\ SubSeq(s, i, i + Len(kw) - 1) = kw
    /\ WordBoundary(s, i)
    /\ WordBoundary(s, i + Len(kw))

KeywordAt(s, i) ==
    IF \E k \in 1..Len(ReservedKeywords) : KeywordMatches(s, i, ReservedKeywords[k])
    THEN ReservedKeywords[CHOOSE k \in 1..Len(ReservedKeywords) :
                              /\ KeywordMatches(s, i, ReservedKeywords[k])
                              /\ \A j \in 1..(k - 1) : ~KeywordMatches(s, i, ReservedKeywords[j])]
    ELSE <<>>

\* reservedKeywordRegex.test(value)
reservedKeywordTest(s) == \E i \in 1..Len(s) : KeywordAt(s, i) # <<>>

RECURSIVE LowerKeywordsFrom(_, _)
\* value.replace(reservedKeywordRegex, keyword => keyword.toLowerCase()), scanning from i
LowerKeywordsFrom(s, i) ==
    IF i > Len(s) THEN <<>>
    ELSE LET kw == KeywordAt(s, i) IN
         IF kw # <<>>
         THEN [k \in 1..Len(kw) |-> toLowerCase(kw[k])] \o LowerKeywordsFrom(s, i + Len(kw))
         ELSE <<s[i]>> \o LowerKeywordsFrom(s, i + 1)

\* the character class of line 84
SpecialChars ==
    {"\\", "/", "+", "-", "&", "|", "!", "(", ")", "{", "}", "[", "]", "^", "\"", "~", "*", "?", ":"}

\* the character class of line 93
SpecialCharsSolrSyntax ==
    {"\\", "/", "+", "-", "&", "|", "!", "(", ")", "{", "}", "[", "]", "^", "~", "?"}

RECURSIVE BackslashPrefix(_, _)
\* value.replace(/([class])/g, '\\$1')
BackslashPrefix(s, class) ==
    IF Len(s) = 0 THEN <<>>
    ELSE (IF Head(s) \in class THEN <<"\\", Head(s)>> ELSE <<Head(s)>>)
             \o BackslashPrefix(Tail(s), class)

\* mutant: the character class of the exposed-syntax mode used in default mode
escapeSpecialChars_exposedClass(value) ==
    LET lowered == IF reservedKeywordTest(value) THEN LowerKeywordsFrom(value, 1) ELSE value
    IN BackslashPrefix(lowered, SpecialCharsSolrSyntax)

\* lines 77-85
escapeSpecialChars(value) ==
    LET lowered == IF reservedKeywordTest(value) THEN LowerKeywordsFrom(value, 1) ELSE value
    IN BackslashPrefix(lowered, SpecialChars)

\* lines 92-94
escapeSpecialCharsSolrSyntax(value) == BackslashPrefix(value, SpecialCharsSolrSyntax)

escapeValueForSolr(value, exposeSolrSyntax) ==
    IF value.t = "str"
    THEN Str(IF exposeSolrSyntax THEN escapeSpecialCharsSolrSyntax(value.s)
                                 ELSE escapeSpecialChars(value.s))
    ELSE IF value.t = "bool" THEN (IF value.b = FALSE THEN Num(0) ELSE Num(1))
    ELSE value

(***************************************************************************)
(* Filter Compiler: src/index.js lines 9-70 and 116-158                    *)
(***************************************************************************)
\* mutant: the exclusive operators accepted as well
SUPPORTED_FILTERS_withExclusive ==
    {"equal", "notEqual", "lessOrEqual", "greaterOrEqual", "range", "less", "greater"}

SUPPORTED_FILTERS == {"equal", "notEqual", "lessOrEqual", "greaterOrEqual", "range"}

TO_SEP == <<" ", "T", "O", " ">>
AND_SEP == <<" ", "A", "N", "D", " ">>
OR_SEP == <<" ", "O", "R", " ">>

\* Array.isArray
IsArray(v) == v.t = "arr"

\* mutant: the first two conditions decide, however many the attribute carries
filterRangeQueries_firstTwo(filters) ==
    IF Len(filters) < 2 THEN FALSE
    ELSE filters[1].operator \in {"lessOrEqual", "greaterOrEqual"}
             /\ filters[2].operator \in {"lessOrEqual", "greaterOrEqual"}

filterRangeQueries(filters) ==
    IF Len(filters) # 2 THEN FALSE
    ELSE LET rangeOperators == {"lessOrEqual", "greaterOrEqual"}
             operator1 == filters[1].operator
             operator2 == filters[2].operator
         IN operator1 \in rangeOperators /\ operator2 \in rangeOperators

\* the comparator of line 41; it reads its first argument only
rangeComparator(f) == IF f.operator = "greaterOrEqual" THEN -1 ELSE 1

(***************************************************************************)
(* Array.prototype.sort on the two-element array createRangeFilter gets.   *)
(* The comparator is not a consistent comparison function when both        *)
(* elements are of the same family, so the order is then implementation-   *)
(* defined.  The two insertion sorts V8 has shipped:                       *)
(*   "binaryInsertion" (TimSort, V8 >= 7.0): order = comparefn(a[1], a[0]),*)
(*        a[1] moves to the front iff order < 0;                           *)
(*   "insertion" (V8 < 7.0): order = comparefn(a[0], a[1]),                *)
(*        the elements are swapped iff order > 0.                          *)
(***************************************************************************)
SortEngines == {"binaryInsertion", "insertion"}

Sort2(a, eng) ==
    IF eng = "binaryInsertion"
    THEN (IF rangeComparator(a[2]) < 0 THEN <<a[2], a[1]>> ELSE a)
    ELSE (IF rangeComparator(a[1]) > 0 THEN <<a[2], a[1]>> ELSE a)

\* mutant: the pair is taken in input order, without the sort of line 41
createRangeFilter_unsorted(attributeFilters, eng) ==
    [attribute |-> attributeFilters[1].attribute,
     operator |-> "range",
     value |-> Arr(<<attributeFilters[1].value, attributeFilters[2].value>>)]

createRangeFilter(attributeFilters, eng) ==
    LET sorted == Sort2(attributeFilters, eng)
    IN [attribute |-> attributeFilters[1].attribute,
        operator |-> "range",
        value |-> Arr(<<sorted[1].value, sorted[2].value>>)]

RECURSIVE Uniq(_)
\* the keys of the _.groupBy object, in insertion order
Uniq(keys) ==
    IF Len(keys) = 0 THEN <<>>
    ELSE LET rest == Uniq(SubSeq(keys, 1, Len(keys) - 1))
             last == keys[Len(keys)]
         IN IF \E i \in 1..Len(rest) : rest[i] = last THEN rest ELSE Append(rest, last)

\* _.groupBy(filters, 'attribute'): the groups, in key insertion order
groupByAttribute(filters) ==
    LET keys == Uniq([i \in 1..Len(filters) |-> ToStr(filters[i].attribute)])
    IN [k \in 1..Len(keys) |->
           LET Member(f) == ToStr(f.attribute) = keys[k] IN SelectSeq(filters, Member)]

\* lines 64-69, given the pairs _.filter kept
rangifyWith(filters, rangeQueries, eng) ==
    IF Len(rangeQueries) = 0 THEN filters
    ELSE SelectSeq(filters,
                   LAMBDA f : f.attribute \notin
                                  {rangeQueries[i][1].attribute : i \in 1..Len(rangeQueries)})
             \o [i \in 1..Len(rangeQueries) |-> createRangeFilter(rangeQueries[i], eng)]

rangify(filters, eng) ==
    IF ~\E i \in 1..Len(filters) : filters[i].operator \in {"lessOrEqual", "greaterOrEqual"}
    THEN filters
    ELSE rangifyWith(filters, SelectSeq(groupByAttribute(filters), filterRangeQueries), eng)

\* mutant: the sort of line 41 reorders the array rangify was called with
filtersAfterRangify_sortedInPlace(filters, eng) ==
    IF Len(filters) = 2 /\ filters[1].attribute = filters[2].attribute /\ filterRangeQueries(filters)
    THEN Sort2(filters, eng)
    ELSE filters

\* the array rangify was called with, as the call leaves it: the sort of line 41
\* reorders an array that _.groupBy built (line 61), and lines 66-69 build new
\* arrays and a new range object; no condition object is assigned to
filtersAfterRangify(filters, eng) == filters

\* the FilterExpression buildSolrFilterString was called with, as the call
\* leaves it: map and join of lines 149-155 build new arrays
filtersAfterBuild(floraFilters, eng) ==
    [g \in 1..Len(floraFilters) |-> filtersAfterRangify(floraFilters[g], eng)]

Returned(chars) == [threw |-> FALSE, s |-> chars]
Thrown(errName, msg) == [threw |-> TRUE, error |-> [name |-> errName, message |-> msg]]

\* the template string of line 121, as its three pieces
UnsupportedMessage(operator) ==
    <<"DataSource \"flora-solr\" does not support \"", operator, "\" filters">>

\* mutant: the values of a row are not escaped
compositeRow_unescaped(attribute, values) ==
    <<"(">> \o Join([index \in 1..Len(values.a) |->
                        ToStr(At(attribute, index)) \o <<":">> \o ToStr(values.a[index])],
                    AND_SEP) \o <<")">>

\* lines 140-145: one row of a composite key
compositeRow(attribute, values) ==
    LET conditions == [index \in 1..Len(values.a) |->
                          ToStr(At(attribute, index)) \o <<":">>
                              \o ToStr(escapeValueForSolr(values.a[index], FALSE))]
    IN <<"(">> \o Join(conditions, AND_SEP) \o <<")">>

\* lines 126-129: an array value becomes a range or a disjunction
joinArrayValue(operator, value) ==
    IF IsArray(value)
    THEN (IF operator = "range"
          THEN Str(<<"[">> \o ToStr(At(value, 1)) \o TO_SEP \o ToStr(At(value, 2)) \o <<"]">>)
          ELSE Str(<<"(">> \o ArrJoin(value, OR_SEP) \o <<")">>))
    ELSE value

\* mutant: the templates of the two open-ended ranges exchanged
renderCondition_boundsExchanged(attribute, operator, value) ==
    IF operator # "notEqual"
    THEN Returned(ToStr(attribute) \o <<":">> \o
                  (IF operator = "lessOrEqual"
                   THEN <<"[">> \o ToStr(value) \o TO_SEP \o <<"*", "]">>
                   ELSE IF operator = "greaterOrEqual"
                   THEN <<"[", "*">> \o TO_SEP \o ToStr(value) \o <<"]">>
                   ELSE ToStr(value)))
    ELSE Returned(<<"-">> \o ToStr(attribute) \o <<":">> \o ToStr(value))

\* lines 131-136, with value as lines 125-129 left it
renderCondition(attribute, operator, value) ==
    IF operator # "notEqual"
    THEN Returned(ToStr(attribute) \o <<":">> \o
                  (IF operator = "greaterOrEqual"
                   THEN <<"[">> \o ToStr(value) \o TO_SEP \o <<"*", "]">>
                   ELSE IF operator = "lessOrEqual"
                   THEN <<"[", "*">> \o TO_SEP \o ToStr(value) \o <<"]">>
                   ELSE ToStr(value)))
    ELSE Returned(<<"-">> \o ToStr(attribute) \o <<":">> \o ToStr(value))

\* mutant: a composite key honours notEqual with the negation prefix
convertFilterToSolrSyntax_compositeNegated(f) ==
    IF f.operator \notin SUPPORTED_FILTERS
    THEN Thrown("ImplementationError", UnsupportedMessage(f.operator))
    ELSE IF ~IsArray(f.attribute)
    THEN renderCondition(f.attribute, f.operator,
                         joinArrayValue(f.operator, escapeValueForSolr(f.value, FALSE)))
    ELSE Returned((IF f.operator = "notEqual" THEN <<"-">> ELSE <<>>)
                      \o Join([r \in 1..Len(f.value.a) |-> compositeRow(f.attribute, f.value.a[r])],
                              OR_SEP))

\* lines 116-146
convertFilterToSolrSyntax(f) ==
    IF f.operator \notin SUPPORTED_FILTERS
    THEN Thrown("ImplementationError", UnsupportedMessage(f.operator))
    ELSE IF ~IsArray(f.attribute)
    THEN renderCondition(f.attribute, f.operator,
                         joinArrayValue(f.operator, escapeValueForSolr(f.value, FALSE)))
    ELSE IF ~IsArray(f.value) \/ \E r \in 1..Len(f.value.a) : ~IsArray(f.value.a[r])
    THEN Thrown("TypeError", <<"map is not a function">>)
    ELSE Returned(Join([r \in 1..Len(f.value.a) |-> compositeRow(f.attribute, f.value.a[r])],
                       OR_SEP))

\* line 150: the conditions of a group after the range-merge pass
mergedGroup(andFilters, eng) ==
    IF Len(andFilters) > 1 THEN rangify(andFilters, eng) ELSE andFilters

\* line 151: each condition of the group converted, returned or thrown
convertAll(filters) == [i \in 1..Len(filters) |-> convertFilterToSolrSyntax(filters[i])]

groupConditions(andFilters, eng) == convertAll(mergedGroup(andFilters, eng))

RECURSIVE FirstThrown(_)
\* the first exception raised while mapping over the groups and their conditions
FirstThrown(results) ==
    IF Len(results) = 0 THEN <<>>
    ELSE IF \E i \in 1..Len(results[1]) : results[1][i].threw
    THEN <<results[1][CHOOSE i \in 1..Len(results[1]) :
                          /\ results[1][i].threw
                          /\ \A j \in 1..(i - 1) : ~results[1][j].threw].error>>
    ELSE FirstThrown(Tail(results))

\* line 152
orCondition(conditions) == <<"(">> \o Join(conditions, AND_SEP) \o <<")">>

\* mutant: the outer parentheses are added for a single group too
joinOrConditions_alwaysWrapped(orConditions) ==
    <<"(">> \o Join(orConditions, OR_SEP) \o <<")">>

\* lines 155-157
joinOrConditions(orConditions) ==
    IF Len(orConditions) > 1
    THEN <<"(">> \o Join(orConditions, OR_SEP) \o <<")">>
    ELSE Join(orConditions, <<>>)

\* the value of buildSolrFilterString with its local variables
builtFrom(conditions) ==
    [threw |-> FALSE,
     conditions |-> conditions,
     orConditions |-> [g \in 1..Len(conditions) |-> orCondition(conditions[g])],
     s |-> joinOrConditions([g \in 1..Len(conditions) |-> orCondition(conditions[g])])]

buildFromResults(results, thrown) ==
    IF Len(thrown) > 0
    THEN [threw |-> TRUE, error |-> thrown[1]]
    ELSE builtFrom([g \in 1..Len(results) |-> [i \in 1..Len(results[g]) |-> results[g][i].s]])

RECURSIVE Flatten(_)
\* the conditions of all groups, in order
Flatten(groups) == IF Len(groups) = 0 THEN <<>> ELSE Head(groups) \o Flatten(Tail(groups))

\* mutant: the merge pass runs over the conditions of all groups at once
mapGroups_flattened(floraFilters, eng) == <<groupConditions(Flatten(floraFilters), eng)>>

mapGroups(floraFilters, eng) ==
    [g \in 1..Len(floraFilters) |-> groupConditions(floraFilters[g], eng)]

filterStringOf(results) == buildFromResults(results, FirstThrown(results))

buildSolrFilterString(floraFilters, eng) == filterStringOf(mapGroups(floraFilters, eng))

(***************************************************************************)
(* Query Assembler: src/index.js lines 165-182, 252-269 and 298-346        *)
(***************************************************************************)
NO_LIMIT == 1000000

\* the configuration the DataSource is constructed with: server name -> urls
Servers == [default |-> <<"http://a.example.com/solr/", "http://b.example.com/solr/">>,
            other |-> <<"http://c.example.com/solr/">>]

\* ToBoolean of a request field
IsTruthy(v) ==
    CASE v.t = "undef" -> FALSE
      [] v.t = "str" -> Len(v.s) > 0
      [] v.t = "num" -> v.n # 0
      [] v.t = "bool" -> v.b
      [] OTHER -> TRUE

\* the class \s, as far as the inputs use it
WhiteSpace == {" ", "\t", "\n", "\r"}

RECURSIVE TrimStart(_)
TrimStart(s) == IF Len(s) > 0 /\ Head(s) \in WhiteSpace THEN TrimStart(Tail(s)) ELSE s

RECURSIVE TrimEnd(_)
TrimEnd(s) ==
    IF Len(s) > 0 /\ s[Len(s)] \in WhiteSpace THEN TrimEnd(SubSeq(s, 1, Len(s) - 1)) ELSE s

\* String.prototype.trim
trim(s) == TrimEnd(TrimStart(s))

RECURSIVE CollapseRuns(_, _, _)
\* s.replace(/[class]{atLeast,}/g, ' ')
CollapseRuns(s, class, atLeast) ==
    IF Len(s) = 0 THEN <<>>
    ELSE LET run == CHOOSE k \in 0..Len(s) :
                        /\ \A i \in 1..k : s[i] \in class
                        /\ (k < Len(s) => s[k + 1] \notin class)
         IN IF run >= atLeast
            THEN <<" ">> \o CollapseRuns(SubSeq(s, run + 1, Len(s)), class, atLeast)
            ELSE IF run > 0
            THEN SubSeq(s, 1, run) \o CollapseRuns(SubSeq(s, run + 1, Len(s)), class, atLeast)
            ELSE <<Head(s)>> \o CollapseRuns(Tail(s), class, atLeast)

prepareQueryAddition(queryAdditions) ==
    trim(CollapseRuns(CollapseRuns(queryAdditions, {"\n", "\r"}, 1), WhiteSpace, 2))

buildSolrOrderString(floraOrders) ==
    Join([i \in 1..Len(floraOrders) |->
             floraOrders[i].attribute \o <<" ">> \o floraOrders[i].direction], <<",">>)

RECURSIVE Split(_, _)
\* String.prototype.split on a one-character separator
Split(s, sep) ==
    IF \E i \in 1..Len(s) : s[i] = sep
    THEN LET i == CHOOSE i \in 1..Len(s) : s[i] = sep /\ \A j \in 1..(i - 1) : s[j] # sep
         IN <<SubSeq(s, 1, i - 1)>> \o Split(SubSeq(s, i + 1, Len(s)), sep)
    ELSE <<s>>

\* the longest prefix without a line terminator, which is what .+ matches
RECURSIVE DotPlus(_)
DotPlus(s) ==
    IF Len(s) = 0 \/ Head(s) \in {"\n", "\r"} THEN <<>> ELSE <<Head(s)>> \o DotPlus(Tail(s))

\* regex.exec(request.search) for ^(?<field>f1|f2|...):(?<search>.+)
\* with plain field names: the first alternative that lets the whole pattern match
searchFieldMatch(allowedSearchFields, search) ==
    LET Matches(k) ==
            LET f == allowedSearchFields[k] IN
            /\ Len(search) > Len(f) + 1
            /\ SubSeq(search, 1, Len(f)) = f
            /\ search[Len(f) + 1] = ":"
            /\ Len(DotPlus(SubSeq(search, Len(f) + 2, Len(search)))) > 0
    IN IF \E k \in 1..Len(allowedSearchFields) : Matches(k)
       THEN LET k == CHOOSE k \in 1..Len(allowedSearchFields) :
                         Matches(k) /\ \A j \in 1..(k - 1) : ~Matches(j)
                f == allowedSearchFields[k]
            IN <<[field |-> f, search |-> DotPlus(SubSeq(search, Len(f) + 2, Len(search)))]>>
       ELSE <<>>

\* lines 254-255
allowedSearchFieldsOf(req) ==
    IF IsTruthy(req.allowedSearchFields) /\ Len(trim(req.allowedSearchFields.s)) > 0
    THEN Split(trim(req.allowedSearchFields.s), ",")
    ELSE <<>>

\* mutant: the matched rest is escaped like any other value
searchTermWith_escapedRest(match, escapedSearchTerm) ==
    IF Len(match) = 0 THEN ToStr(escapedSearchTerm)
    ELSE <<"(">> \o match[1].field \o <<":", "\"">>
             \o escapeSpecialChars(match[1].search) \o <<"\"", ")">>

\* lines 264-268
searchTermWith(match, escapedSearchTerm) ==
    IF Len(match) = 0 THEN ToStr(escapedSearchTerm)
    ELSE <<"(">> \o match[1].field \o <<":", "\"">> \o match[1].search \o <<"\"", ")">>

prepareSearchTerm(req) ==
    IF Len(allowedSearchFieldsOf(req)) = 0
    THEN ToStr(escapeValueForSolr(req.search, IsTruthy(req.exposeSolrSyntax)))
    ELSE searchTermWith(searchFieldMatch(allowedSearchFieldsOf(req), req.search.s),
                        escapeValueForSolr(req.search, IsTruthy(req.exposeSolrSyntax)))

\* request.server || 'default'
\* (a server name is written as a string of one piece: Str(<<"other">>))
serverOf(req) == IF IsTruthy(req.server) THEN req.server.s[1] ELSE "default"

\* mutant: the generator stays at the last URL instead of starting over
urlGeneratorNext_noRestart(server, index) ==
    [value |-> Servers[server][index + 1],
     index |-> IF index + 1 < Len(Servers[server]) THEN index + 1 ELSE index]

\* this._urls[server].next(): the url yielded and the generator's next index
urlGeneratorNext(server, index) ==
    [value |-> Servers[server][index + 1],
     index |-> (index + 1) % Len(Servers[server])]

\* mutant: the filter fragment is pushed before the search fragment
queryPartsWith_filterFirst(req, built) ==
    IF built.threw THEN [threw |-> TRUE, error |-> built.error]
    ELSE [threw |-> FALSE,
          parts |->
              LET parts ==
                      (IF IsTruthy(req.filter) THEN <<built.s>> ELSE <<>>)
                      \o (IF IsTruthy(req.search) /\ Len(trim(req.search.s)) > 0
                          THEN <<prepareSearchTerm(req)>> ELSE <<>>)
                      \o (IF IsTruthy(req.queryAddition)
                          THEN <<prepareQueryAddition(req.queryAddition.s)>> ELSE <<>>)
              IN IF Len(parts) = 0 THEN <<<<"*", ":", "*">>>> ELSE parts]

\* lines 312-317, given what the filter compiler returned or threw
queryPartsWith(req, built) ==
    IF built.threw THEN [threw |-> TRUE, error |-> built.error]
    ELSE [threw |-> FALSE,
          parts |->
              LET parts ==
                      (IF IsTruthy(req.search) /\ Len(trim(req.search.s)) > 0
                       THEN <<prepareSearchTerm(req)>> ELSE <<>>)
                      \o (IF IsTruthy(req.filter) THEN <<built.s>> ELSE <<>>)
                      \o (IF IsTruthy(req.queryAddition)
                          THEN <<prepareQueryAddition(req.queryAddition.s)>> ELSE <<>>)
              IN IF Len(parts) = 0 THEN <<<<"*", ":", "*">>>> ELSE parts]

\* lines 312-317: the fragments of q, or the exception the filter compiler raised
queryParts(req, eng) ==
    queryPartsWith(req, IF IsTruthy(req.filter) THEN buildSolrFilterString(req.filter.a, eng)
                        ELSE [threw |-> FALSE, s |-> <<>>])

\* mutant: only a missing limit is replaced, a limit of 0 is kept
limitOf_zeroKept(req) == IF req.limit.t = "undef" THEN Num(NO_LIMIT) ELSE req.limit

\* line 320: the limit process() leaves in the request
limitOf(req) == IF ~IsTruthy(req.limit) THEN Num(NO_LIMIT) ELSE req.limit

\* mutant: the page is taken as 0-based
pageStart_zeroBased(page, limit) == Num(page.n * limit.n)

\* line 321: (request.page - 1) * request.limit
pageStart(page, limit) == Num((page.n - 1) * limit.n)

\* mutant: rows follows the request's limit in the grouped branch too
rowParams_rowsFromLimit(req, limit) ==
    IF ~IsTruthy(req.limitPer)
    THEN [rows |-> limit]
    ELSE ("group" :> Str(<<"t", "r", "u", "e">>))
             @@ ("group.format" :> Str(<<"s", "i", "m", "p", "l", "e">>))
             @@ ("group.main" :> Str(<<"t", "r", "u", "e">>))
             @@ ("group.field" :> req.limitPer)
             @@ ("group.limit" :> limit)
             @@ ("rows" :> limit)

\* lines 323-333
rowParams(req, limit) ==
    IF ~IsTruthy(req.limitPer)
    THEN [rows |-> limit]
    ELSE ("group" :> Str(<<"t", "r", "u", "e">>))
             @@ ("group.format" :> Str(<<"s", "i", "m", "p", "l", "e">>))
             @@ ("group.main" :> Str(<<"t", "r", "u", "e">>))
             @@ ("group.field" :> req.limitPer)
             @@ ("group.limit" :> limit)
             @@ ("rows" :> Num(NO_LIMIT))

\* lines 301-335: the parameter map, a function from the keys that are set
paramsOf(req, parts) ==
    [q |-> Str(Join(parts, AND_SEP))]
        @@ rowParams(req, limitOf(req))
        @@ (IF IsTruthy(req.page)
            THEN [start |-> pageStart(req.page, limitOf(req))] ELSE <<>>)
        @@ (IF IsTruthy(req.df) THEN [df |-> req.df] ELSE <<>>)
        @@ (IF IsTruthy(req.order)
            THEN [sort |-> Str(buildSolrOrderString(req.order.a))] ELSE <<>>)
        @@ (IF IsTruthy(req.attributes)
            THEN [fl |-> Str(Join(req.attributes.a, <<",">>))] ELSE <<>>)
        @@ [wt |-> Str(<<"j", "s", "o", "n">>)]

(***************************************************************************)
(* Bounded inputs                                                          *)
(***************************************************************************)
MaxStrLen == 4      \* longest string handed to escape()
MaxArr == 2         \* longest array value of a condition
MaxRows == 2        \* most rows of a composite-key condition
MaxConds == 3       \* most conditions in one group
MaxGroups == 3      \* most groups in one expression

\* sequences over S of length lo..hi
SeqsOf(S, lo, hi) == UNION {[1..k -> S] : k \in lo..hi}

\* every reserved character, a space, and letters that spell a keyword
EscapeAlphabet == SpecialChars \cup {"O", "R", "a", " "}
\* longer strings draw from fewer characters
ShortAlphabet == {"\\", ":", "\"", "*", "O", "R", " "}

EscapeStrings == SeqsOf(EscapeAlphabet, 0, 2) \cup SeqsOf(ShortAlphabet, 3, MaxStrLen)

\* the keywords alone, in other case, inside longer words and next to other characters
KeywordStrings ==
    {<<"A", "N", "D">>, <<"N", "O", "T">>, <<"a", "n", "d">>, <<"O", "r">>, <<"N", "o", "t">>,
     <<"A", "N", "D", "R", "O", "I", "D">>, <<"O", "R", "D", "E", "R">>, <<"N", "O", "T", "E">>,
     <<"O", "R", "D", "E", "R", " ", "O", "R">>, <<"a", " ", "A", "N", "D", " ", "b">>,
     <<"N", "O", "T", "-", "x">>, <<"x", "_", "O", "R">>, <<"O", "R", "1">>,
     <<"A", "N", "D", " ", "N", "O", "T", ":", "O", "R">>, <<"\"", "O", "R", "*", ":">>}

EscapeValues ==
    {Str(s) : s \in EscapeStrings \cup KeywordStrings}
        \cup {Bool(TRUE), Bool(FALSE), Num(0), Num(1), Num(42), Undefined,
              Arr(<<Str(<<":">>), Bool(TRUE)>>)}

\* the optional second argument of escape()
ExposeArgs == {Undefined, Bool(FALSE), Bool(TRUE)}

\* ToBoolean of an optional boolean argument
Truthy(v) == v.t = "bool" /\ v.b

foo == Str(<<"f", "o", "o">>)
bar == Str(<<"b", "a", "r">>)
compositeAB == Arr(<<Str(<<"a">>), Str(<<"b">>)>>)
aColonB == Str(<<"a", ":", "b">>)
kwOR == Str(<<"O", "R">>)

Cond(a, op, v) == [attribute |-> a, operator |-> op, value |-> v]

Operators == SUPPORTED_FILTERS \cup {"less", "greater"}

ScalarValues == {Num(1), Num(3), Num(1337), aColonB, kwOR, Bool(TRUE), Bool(FALSE)}
ArrayValues == {Arr(a) : a \in SeqsOf({Num(1), Num(3), aColonB, Bool(TRUE)}, 0, MaxArr)}
                   \cup {Arr(<<Num(1), Num(3), Num(5), Num(7)>>)}
CompositeRows == {Arr(<<Num(1), Str(<<"x">>)>>), Arr(<<Num(3), aColonB>>),
                  Arr(<<Bool(TRUE), Bool(FALSE)>>)}
CompositeValues == {Arr(rows) : rows \in SeqsOf(CompositeRows, 1, MaxRows)}

\* conditions that occur in groups of every length
CoreConds ==
    {Cond(foo, "greaterOrEqual", Num(1)), Cond(foo, "greaterOrEqual", Num(5)),
     Cond(foo, "lessOrEqual", Num(3)), Cond(foo, "lessOrEqual", Num(7)),
     Cond(foo, "notEqual", aColonB), Cond(foo, "less", Num(1)),
     Cond(bar, "lessOrEqual", Num(3))}

\* conditions that occur in groups of one or two
PairConds ==
    CoreConds \cup
    {Cond(foo, "greaterOrEqual", aColonB), Cond(foo, "lessOrEqual", Bool(TRUE)),
     Cond(bar, "greaterOrEqual", Num(1)), Cond(bar, "greater", Num(3)),
     Cond(bar, "equal", kwOR), Cond(foo, "equal", Arr(<<aColonB, Bool(TRUE)>>)),
     Cond(foo, "range", Arr(<<Num(1), Num(3)>>)),
     Cond(compositeAB, "equal", Arr(<<Arr(<<Num(1), Str(<<"x">>)>>), Arr(<<Num(3), aColonB>>)>>))}

\* conditions that occur alone in their group
SingleConds ==
    PairConds
        \cup {Cond(a, op, v) : a \in {foo}, op \in Operators, v \in ScalarValues}
        \cup {Cond(foo, op, v) : op \in {"equal", "notEqual", "range", "greaterOrEqual"},
                                 v \in ArrayValues}
        \cup {Cond(compositeAB, op, v) : op \in Operators, v \in CompositeValues}

CondsFor(k) == IF k = 1 THEN SingleConds ELSE IF k = 2 THEN PairConds ELSE CoreConds

FilterGroups == UNION {[1..k -> CondsFor(k)] : k \in 1..MaxConds}

\* the groups of expressions with several groups
OrGroups ==
    {<<c>> : c \in {Cond(foo, "greaterOrEqual", Num(1)), Cond(foo, "lessOrEqual", Num(3)),
                    Cond(foo, "less", Num(1)), Cond(bar, "equal", aColonB)}}
        \cup {<<Cond(foo, "greaterOrEqual", Num(1)), Cond(foo, "lessOrEqual", Num(3))>>,
              <<Cond(foo, "lessOrEqual", Num(3)), Cond(foo, "greaterOrEqual", Num(1))>>,
              <<Cond(bar, "equal", aColonB), Cond(foo, "greaterOrEqual", Num(1))>>,
              <<Cond(bar, "equal", aColonB), Cond(foo, "greater", Num(1))>>}

FilterExpressions == {<<g>> : g \in FilterGroups} \cup SeqsOf(OrGroups, 2, MaxGroups)

NoValue == [t |-> "none"]

MaxCalls == 3       \* process() calls on the DataSource
MaxResponses == 1   \* responses that end

Absent == Undefined

BaseRequest ==
    [server |-> Absent, collection |-> Str(<<"article">>), attributes |-> Absent,
     order |-> Absent, df |-> Absent, search |-> Absent, exposeSolrSyntax |-> Absent,
     allowedSearchFields |-> Absent, filter |-> Absent, queryAddition |-> Absent,
     limit |-> Absent, page |-> Absent, limitPer |-> Absent, _explain |-> Absent]

RequestServers == {Absent, Str(<<"other">>), Str(<<"missing">>)}

\* groups of MaxConds conditions with an unsupported operator at any position
ProcessGroups ==
    [1..MaxConds -> {Cond(foo, "greaterOrEqual", Num(1)), Cond(foo, "lessOrEqual", Num(3)),
                     Cond(foo, "less", Num(1))}]

ProcessFilters ==
    {Absent, Arr(<<>>)}
        \cup {Arr(<<g>>) : g \in ProcessGroups}
        \cup {Arr(e) : e \in SeqsOf(OrGroups, 1, 2)}

\* search terms: with and without surrounding whitespace, with a field prefix
\* that is or is not allowed, with an empty rest, with a rest of two lines, and blank
SearchTerms ==
    {Absent, Str(<<" ">>),
     Str(<<"a", ":", "O", "R">>), Str(<<" ", "a", ":", "O", "R">>), Str(<<"a", ":", "x", " ">>),
     Str(<<"c", ":", "O", "R">>), Str(<<"a", ":">>), Str(<<"O", "R", " ", "x">>),
     Str(<<"a", ":", "x", "\n", "y">>), Str(<<"a", ":", "\"", "O", "R">>)}

Requests ==
    {[BaseRequest EXCEPT !.server = s, !.filter = f] : s \in RequestServers, f \in ProcessFilters}
        \cup {[BaseRequest EXCEPT !.search = t, !.queryAddition = qa, !._explain = ex] :
                  t \in {Absent, Str(<<" ", "a", ":", "O", "R">>)},
                  qa \in {Absent, Str(<<"x", "\n", " ", "y">>)},
                  ex \in {Absent, [t |-> "obj", o |-> <<>>]}}
        \cup {[BaseRequest EXCEPT !.search = t, !.allowedSearchFields = asf,
                                  !.exposeSolrSyntax = ex, !.filter = f, !.queryAddition = qa] :
                  t \in SearchTerms, asf \in {Absent, Str(<<"a", ",", "b">>)},
                  ex \in {Absent, Bool(TRUE)},
                  f \in {Absent, Arr(<<>>), Arr(<<<<Cond(foo, "greaterOrEqual", Num(1))>>>>)},
                  qa \in {Absent, Str(<<" ">>), Str(<<"x", "\n", " ", "y">>)}}
        \cup {[BaseRequest EXCEPT !.limit = l, !.page = pg, !.limitPer = lp, !.order = o] :
                  l \in {Absent, Num(0), Num(10)},
                  pg \in {Absent, Num(1), Num(3)},
                  lp \in {Absent, Str(<<"s", "I", "d">>)},
                  o \in {Absent, Arr(<<[attribute |-> <<"f", "o", "o">>,
                                        direction |-> <<"a", "s", "c">>]>>)}}

(***************************************************************************)
(* Spec: a DataSource and process() calls on one request object            *)
(***************************************************************************)
Init ==
    /\ engine \in SortEngines
    /\ pc = "process"
    /\ input = NoValue
    /\ output = NoValue
    /\ filter = <<>>
    /\ compiled = NoValue
    /\ request \in Requests
    /\ urls = [s \in DOMAIN Servers |-> 0]
    /\ queries = 0
    /\ calls = <<>>
    /\ sent = <<>>
    /\ http = <<>>

Rejected(err) == [state |-> "rejected", error |-> err]

\* the call was rejected before http.request was reached; server is the
\* configured server whose generator the call advanced, "" if it advanced none
NoRequest(server) == [made |-> FALSE, server |-> server]

\* lines 221-248: the request was written and ended; no event has been emitted yet
OpenRequest(server) ==
    [made |-> TRUE, server |-> server, ended |-> FALSE, statusCode |-> 0, body |-> "",
     uncaught |-> FALSE, aborted |-> FALSE, errored |-> FALSE]

\* mutant: the call is rejected after a URL of the default server was taken
ProcessUnknownServer_cursorAdvanced(server) ==
    /\ calls' = Append(calls, Rejected([name |-> "Error",
                                        message |-> <<"Server \"", server, "\" not defined">>]))
    /\ http' = Append(http, NoRequest(""))
    /\ urls' = [urls EXCEPT !["default"] = (@ + 1) % Len(Servers["default"])]
    /\ UNCHANGED <<request, queries, sent>>

\* lines 304: the server is not configured
ProcessUnknownServer(server) ==
    /\ calls' = Append(calls, Rejected([name |-> "Error",
                                        message |-> <<"Server \"", server, "\" not defined">>]))
    /\ http' = Append(http, NoRequest(""))
    /\ UNCHANGED <<request, urls, queries, sent>>

\* lines 320-345: the request is sent
ProcessSend(requestUrl, params) ==
    /\ request' =
           [request EXCEPT
               !.filter = IF IsTruthy(request.filter)
                          THEN Arr(filtersAfterBuild(request.filter.a, engine))
                          ELSE request.filter,
               !.limit = limitOf(request),
               !._explain =
                   IF IsTruthy(request._explain)
                   THEN [t |-> "obj",
                         o |-> [url |-> requestUrl, params |-> params] @@ request._explain.o]
                   ELSE request._explain]
    /\ queries' = queries + 1
    /\ sent' = Append(sent, [url |-> requestUrl, params |-> params])
    /\ calls' = Append(calls, [state |-> "pending", url |-> requestUrl, params |-> params])
    /\ http' = Append(http, OpenRequest(serverOf(request)))

\* mutant: the URL is taken only once the filter has been compiled
ProcessOn_urlAfterFilter(server, next, qp) ==
    IF qp.threw
    THEN /\ calls' = Append(calls, Rejected(qp.error))
         /\ http' = Append(http, NoRequest(server))
         /\ UNCHANGED <<request, urls, queries, sent>>
    ELSE /\ urls' = [urls EXCEPT ![server] = next.index]
         /\ ProcessSend(<<next.value>> \o ToStr(request.collection) \o <<"/select">>,
                        paramsOf(request, qp.parts))

\* lines 306-345, once the server is known
ProcessOn(server, next, qp) ==
    /\ urls' = [urls EXCEPT ![server] = next.index]
    /\ IF qp.threw
       THEN /\ calls' = Append(calls, Rejected(qp.error))
            /\ http' = Append(http, NoRequest(server))
            /\ UNCHANGED <<request, queries, sent>>
       ELSE ProcessSend(<<next.value>> \o ToStr(request.collection) \o <<"/select">>,
                        paramsOf(request, qp.parts))

\* async process(request), lines 298-346, up to the promise it returns
Process ==
    /\ pc = "process"
    /\ Len(calls) < MaxCalls
    /\ IF serverOf(request) \notin DOMAIN Servers
       THEN ProcessUnknownServer(serverOf(request))
       ELSE ProcessOn(serverOf(request),
                      urlGeneratorNext(serverOf(request), urls[serverOf(request)]),
                      queryParts(request, engine))
    /\ UNCHANGED <<engine, pc, input, output, filter, compiled>>

Next == Process

Spec == Init /\ [][Next]_vars

(***************************************************************************)
(* querySolr: the handlers of the response and of the request              *)
(***************************************************************************)
Null == [t |-> "null"]
Obj(o) == [t |-> "obj", o |-> o]

\* response bodies: markup, nothing, JSON without a response object, JSON with
\* an empty response object, and a result of two documents
Bodies ==
    {"<p>Something went wrong</p>", "", "{}", "null", "{\"response\":{}}",
     "{\"response\":{\"numFound\":2,\"docs\":[7,9]}}"}

StatusCodes == {200, 399, 400, 503}

\* http.STATUS_CODES[statusCode], as template strings print it
STATUS_CODES(statusCode) ==
    CASE statusCode = 200 -> "OK"
      [] statusCode = 400 -> "Bad Request"
      [] statusCode = 503 -> "Service Unavailable"
      [] OTHER -> "undefined"

\* JSON.parse on the bodies above: the value, or the SyntaxError it throws
JSONparse(str) ==
    CASE str = "{}" -> [threw |-> FALSE, value |-> Obj(<<>>)]
      [] str = "null" -> [threw |-> FALSE, value |-> Null]
      [] str = "{\"response\":{}}" -> [threw |-> FALSE, value |-> Obj([response |-> Obj(<<>>)])]
      [] str = "{\"response\":{\"numFound\":2,\"docs\":[7,9]}}" ->
             [threw |-> FALSE,
              value |-> Obj([response |-> Obj([numFound |-> Num(2),
                                               docs |-> Arr(<<Num(7), Num(9)>>)])])]
      [] OTHER -> [threw |-> TRUE]

\* lines 169-175: the parsed value, or an Error object as the return value
parseData(str) ==
    IF JSONparse(str).threw
    THEN [isError |-> TRUE, message |-> <<"Could not parse response: ", str>>]
    ELSE [isError |-> FALSE, value |-> JSONparse(str).value]

\* reading a property of v throws a TypeError
ReadThrows(v) == v.t \in {"null", "undef"}

\* v[key] for a v on which the read does not throw
Get(v, key) == IF v.t = "obj" /\ key \in DOMAIN v.o THEN v.o[key] ELSE Undefined

\* mutant: a later resolve or reject replaces the outcome
Settle_lastWins(call, outcome) == outcome

\* resolve(value) and reject(error) of the promise of line 214: the first call settles it
Settle(call, outcome) == IF call.state = "pending" THEN outcome ELSE call

Resolved(value) == [state |-> "resolved", value |-> value]

\* lines 228-231
SolrError(statusCode) ==
    [name |-> "Error",
     message |-> <<"Solr error: ", statusCode, " ", STATUS_CODES(statusCode)>>]

\* lines 225-234: what the 'end' handler does to the promise; it returns the
\* call unchanged where line 233 throws out of the handler
onEnd(call, statusCode, data) ==
    IF statusCode >= 400 \/ data.isError
    THEN Settle(call, Rejected(SolrError(statusCode)))
    ELSE IF ReadThrows(data.value) \/ ReadThrows(Get(data.value, "response"))
    THEN call
    ELSE Settle(call, Resolved([totalCount |-> Get(Get(data.value, "response"), "numFound"),
                                data |-> Get(Get(data.value, "response"), "docs")]))

\* line 233 throws a TypeError that no one catches
endThrows(statusCode, data) ==
    /\ ~(statusCode >= 400 \/ data.isError)
    /\ ReadThrows(data.value) \/ ReadThrows(Get(data.value, "response"))

\* the response of call i has not ended and its request was neither aborted nor failed
InFlight(i) ==
    /\ i \in 1..Len(http)
    /\ http[i].made /\ ~http[i].ended /\ ~http[i].aborted /\ ~http[i].errored

\* res.on('end', ...), lines 225-235: the response of call i ends with this
\* status and this body
ResponseEnd(i, statusCode, body) ==
    /\ pc = "process"
    /\ InFlight(i)
    /\ Cardinality({j \in 1..Len(http) : http[j].made /\ http[j].ended}) < MaxResponses
    /\ calls' = [calls EXCEPT ![i] = onEnd(calls[i], statusCode, parseData(body))]
    /\ http' = [http EXCEPT ![i] = [@ EXCEPT !.ended = TRUE, !.statusCode = statusCode,
                                              !.body = body,
                                              !.uncaught = endThrows(statusCode, parseData(body))]]
    /\ UNCHANGED <<engine, pc, input, output, filter, compiled, request, urls, queries, sent>>

\* line 238: the request timeout passes before the response has ended and
\* the callback aborts the request
RequestTimeout(i) ==
    /\ pc = "process"
    /\ InFlight(i)
    /\ http' = [http EXCEPT ![i] = [@ EXCEPT !.aborted = TRUE]]
    /\ UNCHANGED <<engine, pc, input, output, filter, compiled, request, urls, queries, calls, sent>>

\* req.on('error', ...), lines 242-245: the request emits 'error', be it
\* before a response, after an abort or after the response has ended
RequestError(i) ==
    /\ pc = "process"
    /\ i \in 1..Len(http)
    /\ http[i].made /\ ~http[i].errored
    /\ calls' = [calls EXCEPT ![i] =
                     Settle(calls[i], Rejected([name |-> "Error",
                                                message |-> <<"Solr error: ", "socket hang up">>]))]
    /\ http' = [http EXCEPT ![i] = [@ EXCEPT !.errored = TRUE]]
    /\ UNCHANGED <<engine, pc, input, output, filter, compiled, request, urls, queries, sent>>

(***************************************************************************)
(* SpecQuery: process() calls for one request and what becomes of them     *)
(***************************************************************************)
InitQuery ==
    /\ engine = "binaryInsertion"
    /\ pc = "process"
    /\ input = NoValue
    /\ output = NoValue
    /\ filter = <<>>
    /\ compiled = NoValue
    /\ request = BaseRequest
    /\ urls = [s \in DOMAIN Servers |-> 0]
    /\ queries = 0
    /\ calls = <<>>
    /\ sent = <<>>
    /\ http = <<>>

NextQuery ==
    \/ Process
    \/ \E i \in 1..MaxCalls, statusCode \in StatusCodes, body \in Bodies :
           ResponseEnd(i, statusCode, body)
    \/ \E i \in 1..MaxCalls : RequestTimeout(i)
    \/ \E i \in 1..MaxCalls : RequestError(i)

SpecQuery == InitQuery /\ [][NextQuery]_vars

\* the event loop delivers the 'end' event of a response that arrives
SpecQueryLive ==
    SpecQuery /\ WF_vars(\E i \in 1..MaxCalls, statusCode \in StatusCodes, body \in Bodies :
                             ResponseEnd(i, statusCode, body))

(***************************************************************************)
(* SpecServers: calls that name different servers, in any order            *)
(***************************************************************************)
\* a filter the compiler rejects
UnsupportedFilter == Arr(<<<<Cond(foo, "less", Num(1))>>>>)

ServerRequests ==
    {[BaseRequest EXCEPT !.server = s, !.filter = f] :
         s \in RequestServers, f \in {Absent, UnsupportedFilter}}

InitServers ==
    /\ engine = "binaryInsertion"
    /\ pc = "process"
    /\ input = NoValue
    /\ output = NoValue
    /\ filter = <<>>
    /\ compiled = NoValue
    /\ request \in ServerRequests
    /\ urls = [s \in DOMAIN Servers |-> 0]
    /\ queries = 0
    /\ calls = <<>>
    /\ sent = <<>>
    /\ http = <<>>

\* the caller prepares its next request: another server, another filter
CallerSets(server, floraFilter) ==
    /\ pc = "process"
    /\ Len(calls) < MaxCalls
    /\ request' = [request EXCEPT !.server = server, !.filter = floraFilter]
    /\ request' # request
    /\ UNCHANGED <<engine, pc, input, output, filter, compiled, urls, queries, calls, sent, http>>

NextServers ==
    \/ Process
    \/ \E s \in RequestServers, f \in {Absent, UnsupportedFilter} : CallerSets(s, f)
    \/ \E i \in 1..MaxCalls :
           ResponseEnd(i, 200, "{\"response\":{\"numFound\":2,\"docs\":[7,9]}}")
    \/ \E i \in 1..MaxCalls : RequestError(i)

SpecServers == InitServers /\ [][NextServers]_vars

(***************************************************************************)
(* SpecEscape: DataSource.escape applied to one value                      *)
(***************************************************************************)
InitEscape ==
    /\ engine = "binaryInsertion"
    /\ pc = "escape"
    /\ input \in [value : EscapeValues, exposeSolrSyntax : ExposeArgs]
    /\ output = NoValue
    /\ filter = <<>>
    /\ compiled = NoValue
    /\ request = BaseRequest
    /\ urls = [s \in DOMAIN Servers |-> 0]
    /\ queries = 0
    /\ calls = <<>>
    /\ sent = <<>>
    /\ http = <<>>

\* DataSource.escape(...args), lines 358-360
Escape ==
    /\ pc = "escape"
    /\ output' = escapeValueForSolr(input.value, Truthy(input.exposeSolrSyntax))
    /\ pc' = "escaped"
    /\ UNCHANGED <<engine, input, filter, compiled, request, urls, queries, calls, sent, http>>

NextEscape == Escape

SpecEscape == InitEscape /\ [][NextEscape]_vars

(***************************************************************************)
(* SpecFilter: buildSolrFilterString applied to one FilterExpression       *)
(***************************************************************************)
InitFilter ==
    /\ engine \in SortEngines
    /\ pc = "compile"
    /\ input = NoValue
    /\ output = NoValue
    /\ filter \in FilterExpressions
    /\ compiled = NoValue
    /\ request = BaseRequest
    /\ urls = [s \in DOMAIN Servers |-> 0]
    /\ queries = 0
    /\ calls = <<>>
    /\ sent = <<>>
    /\ http = <<>>

Compile ==
    /\ pc = "compile"
    /\ compiled' = buildSolrFilterString(filter, engine)
    /\ filter' = filtersAfterBuild(filter, engine)
    /\ pc' = "compiled"
    /\ UNCHANGED <<engine, input, output, request, urls, queries, calls, sent, http>>

NextFilter == Compile

SpecFilter == InitFilter /\ [][NextFilter]_vars

(***************************************************************************)
(* Helpers of the properties                                               *)
(***************************************************************************)
StartsWith(s, prefix) == Len(s) >= Len(prefix) /\ SubSeq(s, 1, Len(prefix)) = prefix

\* how many elements of the sequence satisfy equality with x
Occurrences(seq, x) == Cardinality({i \in 1..Len(seq) : seq[i] = x})

\* the conditions of a group that name the scalar attribute a, in input order
CondsOn(group, a) == SelectSeq(group, LAMBDA c : c.attribute = a)

\* the scalar attributes a group names
ScalarAttrs(group) == {group[i].attribute : i \in {j \in 1..Len(group) : ~IsArray(group[j].attribute)}}

\* the fragments of a group's output that are clauses on attribute a
ClausesOn(fragments, a) ==
    SelectSeq(fragments, LAMBDA f : StartsWith(f, ToStr(a) \o <<":">>)
                                        \/ StartsWith(f, <<"-">> \o ToStr(a) \o <<":">>))

RangeClause(a, lo, hi) == ToStr(a) \o <<":", "[">> \o lo \o <<" ", "T", "O", " ">> \o hi \o <<"]">>

Compiled == pc = "compiled" /\ ~compiled.threw

(***************************************************************************)
(* C1                                                                      *)
(***************************************************************************)
C1_Supported == {"equal", "notEqual", "lessOrEqual", "greaterOrEqual", "range"}

C1_Unsupported(req) ==
    IF IsTruthy(req.filter)
    THEN SelectSeq(Flatten(req.filter.a), LAMBDA c : c.operator \notin C1_Supported)
    ELSE <<>>

Escaped(v) == ToStr(escapeValueForSolr(v, FALSE))

\* the clause a condition gets when it is rendered on its own
OwnClause(c) ==
    CASE c.operator = "greaterOrEqual" ->
             RangeClause(c.attribute, Escaped(c.value), <<"*">>)
      [] c.operator = "lessOrEqual" ->
             RangeClause(c.attribute, <<"*">>, Escaped(c.value))
      [] c.operator = "notEqual" ->
             <<"-">> \o ToStr(c.attribute) \o <<":">> \o Escaped(c.value)
      [] OTHER -> ToStr(c.attribute) \o <<":">> \o Escaped(c.value)

OpsOf(conds) == [i \in 1..Len(conds) |-> conds[i].operator]

\* the first condition of conds with the operator op
TheCond(conds, op) == conds[CHOOSE i \in 1..Len(conds) :
                                conds[i].operator = op /\ \A j \in 1..(i - 1) : conds[j].operator # op]

\* attribute a carries exactly a greaterOrEqual and a lessOrEqual condition in the group
C2_Pair(group, a) ==
    /\ Len(CondsOn(group, a)) = 2
    /\ Occurrences(OpsOf(CondsOn(group, a)), "greaterOrEqual") = 1
    /\ Occurrences(OpsOf(CondsOn(group, a)), "lessOrEqual") = 1

\* C2: a greaterOrEqual and a lessOrEqual condition that are the only two
\* conditions on a scalar attribute within a group render as the single clause
\* attr:[geValue TO leValue], whichever of the two comes first.
C2_PairMergedLowerFirst ==
    Compiled =>
        \A g \in 1..Len(filter) : \A a \in ScalarAttrs(filter[g]) :
            C2_Pair(filter[g], a) =>
                ClausesOn(compiled.conditions[g], a) =
                    <<RangeClause(a, ToStr(TheCond(CondsOn(filter[g], a), "greaterOrEqual").value),
                                     ToStr(TheCond(CondsOn(filter[g], a), "lessOrEqual").value))>>

\* the pair of the test suite in reverse order, compiled
C2_Witness ==
    /\ Compiled
    /\ filter = <<<<Cond(foo, "lessOrEqual", Num(3)), Cond(foo, "greaterOrEqual", Num(1))>>>>
    /\ compiled.s = <<"(", "f", "o", "o", ":", "[", "1", " ", "T", "O", " ", "3", "]", ")">>

\* attribute a carries exactly two conditions in the group, both of one family
C3_SameFamily(group, a) ==
    /\ Len(CondsOn(group, a)) = 2
    /\ CondsOn(group, a)[1].operator \in {"greaterOrEqual", "lessOrEqual"}
    /\ CondsOn(group, a)[2].operator = CondsOn(group, a)[1].operator

\* C3: two conditions of the same family on one attribute within a group are
\* never merged: each renders its own open-ended clause.
C3_SameFamilyNotMerged ==
    Compiled =>
        \A g \in 1..Len(filter) : \A a \in ScalarAttrs(filter[g]) :
            C3_SameFamily(filter[g], a) =>
                ClausesOn(compiled.conditions[g], a) =
                    <<OwnClause(CondsOn(filter[g], a)[1]), OwnClause(CondsOn(filter[g], a)[2])>>

\* attribute a carries three conditions in the group, a greaterOrEqual and a lessOrEqual among them
C4_PairAndOne(group, a) ==
    /\ Len(CondsOn(group, a)) = 3
    /\ Occurrences(OpsOf(CondsOn(group, a)), "greaterOrEqual") >= 1
    /\ Occurrences(OpsOf(CondsOn(group, a)), "lessOrEqual") >= 1

\* the further condition when the other two are exactly one of each family
C4_Further(conds) ==
    SelectSeq(conds, LAMBDA c : c.operator \notin {"greaterOrEqual", "lessOrEqual"})

\* C4 as stated: with a greaterOrEqual, a lessOrEqual and one further condition
\* on an attribute, exactly the pair is merged into one range clause and the
\* further condition is rendered unmodified next to it.
C4_PairMergedNextToFurther ==
    Compiled =>
        \A g \in 1..Len(filter) : \A a \in ScalarAttrs(filter[g]) :
            (C4_PairAndOne(filter[g], a) /\ Len(C4_Further(CondsOn(filter[g], a))) = 1) =>
                /\ Len(ClausesOn(compiled.conditions[g], a)) = 2
                /\ Occurrences(ClausesOn(compiled.conditions[g], a),
                       RangeClause(a, ToStr(TheCond(CondsOn(filter[g], a), "greaterOrEqual").value),
                                      ToStr(TheCond(CondsOn(filter[g], a), "lessOrEqual").value))) = 1
                /\ Occurrences(ClausesOn(compiled.conditions[g], a),
                               OwnClause(C4_Further(CondsOn(filter[g], a))[1])) = 1

\* C4, amended: with three conditions on an attribute, a greaterOrEqual and a
\* lessOrEqual among them, nothing is merged: each of the three renders the
\* clause it renders on its own, in input order.
C4_ThreeOnAttributeUnmerged ==
    Compiled =>
        \A g \in 1..Len(filter) : \A a \in ScalarAttrs(filter[g]) :
            C4_PairAndOne(filter[g], a) =>
                ClausesOn(compiled.conditions[g], a) =
                    [i \in 1..3 |-> OwnClause(CondsOn(filter[g], a)[i])]

C4_Witness ==
    /\ Compiled
    /\ filter = <<<<Cond(foo, "greaterOrEqual", Num(1)), Cond(foo, "notEqual", aColonB),
                    Cond(foo, "lessOrEqual", Num(3))>>>>
    /\ compiled.s = <<"(", "f", "o", "o", ":", "[", "1", " ", "T", "O", " ", "*", "]">>
                        \o <<" ", "A", "N", "D", " ", "-", "f", "o", "o", ":", "a", "\\", ":", "b">>
                        \o <<" ", "A", "N", "D", " ", "f", "o", "o", ":", "[", "*", " ", "T", "O", " ", "3", "]", ")">>

\* the elements of an array value, each escaped on its own, joined with ' OR '
RECURSIVE C5_EscapedDisjunction(_)
C5_EscapedDisjunction(elems) ==
    IF Len(elems) = 0 THEN <<>>
    ELSE IF Len(elems) = 1 THEN Escaped(elems[1])
    ELSE Escaped(elems[1]) \o <<" ", "O", "R", " ">> \o C5_EscapedDisjunction(Tail(elems))

\* C5: every element of an array value of a scalar attribute is escaped on its
\* own (reserved characters backslash-prefixed, booleans converted to 0/1)
\* before the elements are joined with ' OR '; so are the two values of a
\* range produced by merging.
C5_ArrayElementsEscaped ==
    Compiled =>
        \A g \in 1..Len(filter) :
            /\ \A a \in ScalarAttrs(filter[g]) :
                   C2_Pair(filter[g], a) =>
                       ClausesOn(compiled.conditions[g], a) =
                           <<RangeClause(a, Escaped(TheCond(CondsOn(filter[g], a), "greaterOrEqual").value),
                                            Escaped(TheCond(CondsOn(filter[g], a), "lessOrEqual").value))>>
            /\ (/\ Len(filter[g]) = 1
                /\ ~IsArray(filter[g][1].attribute)
                /\ IsArray(filter[g][1].value)
                /\ filter[g][1].operator \in {"equal", "notEqual"}) =>
                   compiled.conditions[g] =
                       <<(IF filter[g][1].operator = "notEqual" THEN <<"-">> ELSE <<>>)
                             \o ToStr(filter[g][1].attribute) \o <<":", "(">>
                             \o C5_EscapedDisjunction(filter[g][1].value.a) \o <<")">>>>

(***************************************************************************)
(* C6: escape in default mode                                              *)
(***************************************************************************)
C6_Reserved ==
    {"\\", "/", "+", "-", "&", "|", "!", "(", ")", "{", "}", "[", "]", "^", "\"", "~", "*", "?", ":"}

RECURSIVE C6_Strip(_)
\* the escaped string read back: a backslash and the reserved character after
\* it stand for that character, any other character for itself; "<bad>" marks
\* a reserved character without its backslash or a backslash before none
C6_Strip(o) ==
    IF Len(o) = 0 THEN <<>>
    ELSE IF o[1] = "\\"
    THEN (IF Len(o) >= 2 /\ o[2] \in C6_Reserved
          THEN <<o[2]>> \o C6_Strip(SubSeq(o, 3, Len(o)))
          ELSE <<"<bad>">>)
    ELSE IF o[1] \in C6_Reserved THEN <<"<bad>">>
    ELSE <<o[1]>> \o C6_Strip(Tail(o))

C6_SameUpToKeywordCase(a, b) ==
    /\ Len(a) = Len(b)
    /\ \A i \in 1..Len(a) :
           \/ a[i] = b[i]
           \/ b[i] \in {"A", "N", "D", "O", "R", "T"} /\ a[i] = toLowerCase(b[i])

\* C6: in default mode escape puts exactly one added backslash before every
\* occurrence of each of the 19 reserved characters of a string and copies,
\* apart from keyword lowercasing, every other character unchanged and in
\* order; a boolean becomes 0 or 1, any other value is returned unchanged.
C6_DefaultEscape ==
    (pc = "escaped" /\ ~Truthy(input.exposeSolrSyntax)) =>
        CASE input.value.t = "str" ->
                 /\ output.t = "str"
                 /\ C6_SameUpToKeywordCase(C6_Strip(output.s), input.value.s)
                 /\ Len(output.s) = Len(input.value.s)
                        + Cardinality({i \in 1..Len(input.value.s) : input.value.s[i] \in C6_Reserved})
          [] input.value.t = "bool" -> output = Num(IF input.value.b THEN 1 ELSE 0)
          [] OTHER -> output = input.value

\* a string with a reserved character at both ends, escaped with the flag omitted
C6_Witness ==
    /\ pc = "escaped"
    /\ input = [value |-> Str(<<":", "O", "*">>), exposeSolrSyntax |-> Undefined]
    /\ output = Str(<<"\\", ":", "O", "\\", "*">>)

(***************************************************************************)
(* C7 - C10: the render pass                                               *)
(***************************************************************************)
RECURSIVE C7_Disjunction(_)
C7_Disjunction(elems) ==
    IF Len(elems) = 0 THEN <<>>
    ELSE IF Len(elems) = 1 THEN ToStr(elems[1])
    ELSE ToStr(elems[1]) \o <<" ", "O", "R", " ">> \o C7_Disjunction(Tail(elems))

\* the cases C7 lists: a scalar value under equal, notEqual, greaterOrEqual or
\* lessOrEqual; a two-element array under range; an array under equal or notEqual
C7_Covers(c) ==
    /\ ~IsArray(c.attribute)
    /\ \/ ~IsArray(c.value) /\ c.operator \in {"equal", "notEqual", "greaterOrEqual", "lessOrEqual"}
       \/ IsArray(c.value) /\ c.operator = "range" /\ Len(c.value.a) = 2
       \/ IsArray(c.value) /\ c.operator \in {"equal", "notEqual"}

C7_Clause(c) ==
    IF ~IsArray(c.value) THEN OwnClause(c)
    ELSE IF c.operator = "range"
    THEN RangeClause(c.attribute, ToStr(c.value.a[1]), ToStr(c.value.a[2]))
    ELSE (IF c.operator = "notEqual" THEN <<"-">> ELSE <<>>)
             \o ToStr(c.attribute) \o <<":", "(">> \o C7_Disjunction(c.value.a) \o <<")">>

\* C7: a condition on a scalar attribute renders as attr:e (equal), -attr:e
\* (notEqual), attr:[e TO *] (greaterOrEqual), attr:[* TO e] (lessOrEqual),
\* attr:[lo TO hi] (range with [lo, hi]), and with an array value under equal
\* or notEqual the value part is (v1 OR ... OR vn) in input order.
C7_OperatorSyntax ==
    Compiled =>
        \A g \in 1..Len(filter) :
            (Len(filter[g]) = 1 /\ C7_Covers(filter[g][1])) =>
                compiled.conditions[g] = <<C7_Clause(filter[g][1])>>

\* the array of the test suite
C7_Witness ==
    /\ Compiled
    /\ filter = <<<<Cond(foo, "equal", Arr(<<Num(1), Num(3), Num(5), Num(7)>>))>>>>
    /\ compiled.s = <<"(", "f", "o", "o", ":", "(", "1", " ", "O", "R", " ", "3", " ", "O", "R", " ",
                      "5", " ", "O", "R", " ", "7", ")", ")">>

RECURSIVE C8_Pairs(_, _, _)
\* attr_k:val_k AND ... AND attr_N:val_N
C8_Pairs(attrs, row, k) ==
    ToStr(attrs[k]) \o <<":">> \o Escaped(row[k])
        \o (IF k < Len(row) THEN <<" ", "A", "N", "D", " ">> \o C8_Pairs(attrs, row, k + 1) ELSE <<>>)

RECURSIVE C8_Rows(_, _, _)
C8_Rows(attrs, rows, r) ==
    <<"(">> \o C8_Pairs(attrs, rows[r].a, 1) \o <<")">>
        \o (IF r < Len(rows) THEN <<" ", "O", "R", " ">> \o C8_Rows(attrs, rows, r + 1) ELSE <<>>)

\* C8: a condition whose attribute is an array of N names and whose value is a
\* list of rows of N scalars renders each row as (attr1:val1 AND ... AND
\* attrN:valN), names and values paired by position and every value escaped or
\* boolean-converted, the rows joined with ' OR ' in input order.
C8_CompositeRows ==
    Compiled =>
        \A g \in 1..Len(filter) : \A i \in 1..Len(filter[g]) :
            IsArray(filter[g][i].attribute) =>
                /\ Occurrences(compiled.conditions[g],
                               C8_Rows(filter[g][i].attribute.a, filter[g][i].value.a, 1)) >= 1
                /\ Len(filter[g]) = 1 =>
                       compiled.conditions[g] =
                           <<C8_Rows(filter[g][i].attribute.a, filter[g][i].value.a, 1)>>

\* two rows, one with a reserved character and one of booleans
C8_Witness ==
    /\ Compiled
    /\ filter = <<<<Cond(compositeAB, "equal",
                        Arr(<<Arr(<<Num(3), aColonB>>), Arr(<<Bool(TRUE), Bool(FALSE)>>)>>))>>>>
    /\ compiled.s = <<"(", "(", "a", ":", "3", " ", "A", "N", "D", " ", "b", ":", "a", "\\", ":", "b", ")",
                      " ", "O", "R", " ",
                      "(", "a", ":", "1", " ", "A", "N", "D", " ", "b", ":", "0", ")", ")">>

RECURSIVE C9_Chain(_, _, _)
\* the strings from the k-th on, each after the first preceded by sep
C9_Chain(strs, sep, k) ==
    IF k > Len(strs) THEN <<>>
    ELSE (IF k > 1 THEN sep ELSE <<>>) \o strs[k] \o C9_Chain(strs, sep, k + 1)

C9_Group(fragments) == <<"(">> \o C9_Chain(fragments, <<" ", "A", "N", "D", " ">>, 1) \o <<")">>

C9_Disjunction(groups) ==
    C9_Chain([g \in 1..Len(groups) |-> C9_Group(groups[g])], <<" ", "O", "R", " ">>, 1)

\* C9: the fragments of each group are joined with ' AND ' inside one
\* parenthesis pair, the groups with ' OR ' in input order, and the whole is
\* wrapped in one further pair if and only if there is more than one group.
C9_GroupsJoined ==
    Compiled =>
        /\ Len(compiled.conditions) = Len(filter)
        /\ \A g \in 1..Len(filter) :
               Len(filter[g]) = 1 =>
                   compiled.conditions[g] = <<convertFilterToSolrSyntax(filter[g][1]).s>>
        /\ compiled.s = IF Len(filter) > 1
                        THEN <<"(">> \o C9_Disjunction(compiled.conditions) \o <<")">>
                        ELSE C9_Disjunction(compiled.conditions)

\* three groups, the second with two fragments
C9_Witness ==
    /\ Compiled
    /\ filter = <<<<Cond(foo, "lessOrEqual", Num(3))>>,
                  <<Cond(bar, "equal", aColonB), Cond(foo, "greaterOrEqual", Num(1))>>,
                  <<Cond(foo, "greaterOrEqual", Num(1))>>>>
    /\ compiled.s = <<"(", "(", "f", "o", "o", ":", "[", "*", " ", "T", "O", " ", "3", "]", ")",
                      " ", "O", "R", " ",
                      "(", "b", "a", "r", ":", "a", "\\", ":", "b", " ", "A", "N", "D", " ",
                      "f", "o", "o", ":", "[", "1", " ", "T", "O", " ", "*", "]", ")",
                      " ", "O", "R", " ",
                      "(", "f", "o", "o", ":", "[", "1", " ", "T", "O", " ", "*", "]", ")", ")">>

\* the only condition of the group on attribute a, and its operator is op
C10_Lone(group, a, op) == Len(CondsOn(group, a)) = 1 /\ CondsOn(group, a)[1].operator = op

\* C10: a greaterOrEqual condition in one group and a lessOrEqual condition on
\* the same attribute in another group are never merged: each renders its own
\* open-ended range inside its own group.
C10_NoMergeAcrossGroups ==
    Compiled =>
        /\ Len(compiled.conditions) = Len(filter)
        /\ \A g, h \in 1..Len(filter) : \A a \in ScalarAttrs(filter[g]) :
               (/\ g # h
                /\ C10_Lone(filter[g], a, "greaterOrEqual")
                /\ C10_Lone(filter[h], a, "lessOrEqual")) =>
                   /\ ClausesOn(compiled.conditions[g], a) =
                          <<RangeClause(a, Escaped(CondsOn(filter[g], a)[1].value), <<"*">>)>>
                   /\ ClausesOn(compiled.conditions[h], a) =
                          <<RangeClause(a, <<"*">>, Escaped(CondsOn(filter[h], a)[1].value))>>

\* the upper bound in the first group, the lower bound in the second
C10_Witness ==
    /\ Compiled
    /\ filter = <<<<Cond(foo, "lessOrEqual", Num(3))>>, <<Cond(foo, "greaterOrEqual", Num(1))>>>>
    /\ compiled.s = <<"(", "(", "f", "o", "o", ":", "[", "*", " ", "T", "O", " ", "3", "]", ")",
                      " ", "O", "R", " ",
                      "(", "f", "o", "o", ":", "[", "1", " ", "T", "O", " ", "*", "]", ")", ")">>

(***************************************************************************)
(* C11: compiling is repeatable and leaves the expression alone            *)
(***************************************************************************)
C11_Sent(i) == calls[i].state = "pending"

Sent(i) == calls[i].state = "pending"

HasSearch == IsTruthy(request.search) /\ Len(trim(request.search.s)) > 0
HasFilter == request.filter.t = "arr" /\ Len(request.filter.a) > 0
HasQueryAddition == IsTruthy(request.queryAddition) /\ Len(trim(request.queryAddition.s)) > 0

\* the filter, if given, has a group, and the queryAddition, if given, is not blank
C12_Unambiguous ==
    /\ request.filter.t = "arr" => HasFilter
    /\ IsTruthy(request.queryAddition) => HasQueryAddition

C12_Fragments ==
    (IF HasSearch THEN <<prepareSearchTerm(request)>> ELSE <<>>)
        \o (IF HasFilter THEN <<buildSolrFilterString(request.filter.a, engine).s>> ELSE <<>>)
        \o (IF HasQueryAddition THEN <<prepareQueryAddition(request.queryAddition.s)>> ELSE <<>>)

\* C12: params.q is the list of the fragments of the search term, the filter
\* and the queryAddition, those that are present and in exactly that order,
\* joined by ' AND '; with none of the three q is exactly '*:*'.
C12_QueryJoined ==
    \A i \in 1..Len(calls) :
        (Sent(i) /\ C12_Unambiguous) =>
            calls[i].params.q =
                Str(IF Len(C12_Fragments) = 0 THEN <<"*", ":", "*">>
                    ELSE C9_Chain(C12_Fragments, <<" ", "A", "N", "D", " ">>, 1))

\* all three fragments present
C12_Witness ==
    /\ Len(calls) >= 1 /\ Sent(1)
    /\ request.search = Str(<<"O", "R", " ", "x">>)
    /\ HasFilter /\ HasQueryAddition
    /\ calls[1].params.q =
           Str(<<"o", "r", " ", "x", " ", "A", "N", "D", " ",
                 "(", "f", "o", "o", ":", "[", "1", " ", "T", "O", " ", "*", "]", ")",
                 " ", "A", "N", "D", " ", "x", " ", "y">>)

\* C13: a request whose filter is an empty list of groups and that has no
\* search term and no queryAddition yields q exactly '*:*'.
C13_EmptyFilterUniversalMatch ==
    \A i \in 1..Len(calls) :
        (/\ Sent(i)
         /\ request.filter = Arr(<<>>)
         /\ ~HasSearch
         /\ ~IsTruthy(request.queryAddition)) =>
            calls[i].params.q = Str(<<"*", ":", "*">>)

\* the request with its search term trimmed
C14_Trimmed == [request EXCEPT !.search = Str(trim(request.search.s))]

\* C14: the search term is trimmed before use: the fragment of a term that is
\* not blank is the one built from the trimmed term, so surrounding whitespace
\* of request.search neither appears in q nor changes the branch taken.
C14_SearchTrimmed ==
    \A i \in 1..Len(calls) :
        (Sent(i) /\ HasSearch /\ request.filter = Absent /\ request.queryAddition = Absent) =>
            calls[i].params.q = Str(prepareSearchTerm(C14_Trimmed))

\* the position of the first colon of a term, 0 if it has none
C15_Colon(term) ==
    IF \E k \in 1..Len(term) : term[k] = ":"
    THEN CHOOSE k \in 1..Len(term) : term[k] = ":" /\ \A j \in 1..(k - 1) : term[j] # ":"
    ELSE 0

C15_Field(term) == SubSeq(term, 1, C15_Colon(term) - 1)
C15_Rest(term) == SubSeq(term, C15_Colon(term) + 1, Len(term))

\* the fields request.allowedSearchFields lists
C15_Allowed ==
    IF IsTruthy(request.allowedSearchFields)
    THEN {Split(request.allowedSearchFields.s, ",")[k] :
              k \in 1..Len(Split(request.allowedSearchFields.s, ","))}
    ELSE {}

C15_Fragment(term) ==
    IF C15_Colon(term) > 0 /\ C15_Field(term) \in C15_Allowed /\ Len(C15_Rest(term)) > 0
    THEN <<"(">> \o C15_Field(term) \o <<":", "\"">> \o C15_Rest(term) \o <<"\"", ")">>
    ELSE ToStr(escapeValueForSolr(Str(term), IsTruthy(request.exposeSolrSyntax)))

\* C15: a term <field>:<rest> with <field> in request.allowedSearchFields and
\* <rest> non-empty gives the fragment (field:"rest"); when the part before the
\* colon is not an allowed field, or no allow-list is configured, the fragment
\* is the escaped whole term.
C15_FieldScopedOrEscaped ==
    \A i \in 1..Len(calls) :
        (/\ Sent(i) /\ HasSearch
         /\ trim(request.search.s) = request.search.s
         /\ request.filter = Absent /\ request.queryAddition = Absent) =>
            calls[i].params.q = Str(C15_Fragment(request.search.s))

(***************************************************************************)
(* C16, C17: keywords and the two escaping modes                           *)
(***************************************************************************)
C16_Keywords == {<<"A", "N", "D">>, <<"N", "O", "T">>, <<"O", "R">>}

C16_WordChar(c) ==
    c \in {"A", "B", "C", "D", "E", "F", "G", "H", "I", "J", "K", "L", "M",
           "N", "O", "P", "Q", "R", "S", "T", "U", "V", "W", "X", "Y", "Z",
           "a", "b", "c", "d", "e", "f", "g", "h", "i", "j", "k", "l", "m",
           "n", "o", "p", "q", "r", "s", "t", "u", "v", "w", "x", "y", "z",
           "0", "1", "2", "3", "4", "5", "6", "7", "8", "9", "_"}

\* kw stands at positions j .. j + Len(kw) - 1 of s with no word character on either side
C16_Standalone(s, j, kw) ==
    /\ j + Len(kw) - 1 <= Len(s)
    /\ SubSeq(s, j, j + Len(kw) - 1) = kw
    /\ j > 1 => ~C16_WordChar(s[j - 1])
    /\ j + Len(kw) <= Len(s) => ~C16_WordChar(s[j + Len(kw)])

C16_InKeyword(s, i) ==
    \E kw \in C16_Keywords : \E j \in 1..i : i <= j + Len(kw) - 1 /\ C16_Standalone(s, j, kw)

C16_Lower(c) ==
    CASE c = "A" -> "a" [] c = "N" -> "n" [] c = "D" -> "d"
      [] c = "O" -> "o" [] c = "T" -> "t" [] c = "R" -> "r" [] OTHER -> c

\* C16: in default mode escape lowercases every standalone upper-case
\* occurrence of AND, NOT and OR and changes the case of nothing else: the
\* letters inside a longer word and lower- or mixed-case forms stay as they are.
C16_KeywordsLowercased ==
    (pc = "escaped" /\ ~Truthy(input.exposeSolrSyntax) /\ input.value.t = "str") =>
        /\ output.t = "str"
        /\ Len(C6_Strip(output.s)) = Len(input.value.s)
        /\ \A i \in 1..Len(input.value.s) :
               C6_Strip(output.s)[i] =
                   IF C16_InKeyword(input.value.s, i) THEN C16_Lower(input.value.s[i])
                   ELSE input.value.s[i]

\* a keyword inside a longer word next to the keyword alone
C16_Witness ==
    /\ pc = "escaped"
    /\ input = [value |-> Str(<<"O", "R", "D", "E", "R", " ", "O", "R">>), exposeSolrSyntax |-> Undefined]
    /\ output = Str(<<"O", "R", "D", "E", "R", " ", "o", "r">>)

RECURSIVE C17_Escaped(_)
\* a backslash before every reserved character other than " and *, nothing else changed
C17_Escaped(s) ==
    IF Len(s) = 0 THEN <<>>
    ELSE (IF Head(s) \in C6_Reserved \ {"\"", "*"} THEN <<"\\", Head(s)>> ELSE <<Head(s)>>)
             \o C17_Escaped(Tail(s))

\* C17: with exposeSolrSyntax true, escape skips keyword lowercasing and
\* backslash-escapes exactly the default reserved set minus " and *.
C17_ExposedSyntax ==
    (pc = "escaped" /\ Truthy(input.exposeSolrSyntax) /\ input.value.t = "str") =>
        output = Str(C17_Escaped(input.value.s))

(***************************************************************************)
(* C18 - C20: rows, start and the grouping parameters                      *)
(***************************************************************************)
\* this step is a process call that sent a request
SendsRequest == Len(calls') = Len(calls) + 1 /\ calls'[Len(calls')].state = "pending"

\* the parameter map of the request this step sent
SentParams == calls'[Len(calls')].params

Has(params, key) == key \in DOMAIN params

\* the limit the request carries when process is called, 1000000 when it carries none
C18_Limit == IF request.limit = Absent THEN 1000000 ELSE request.limit.n

C20_NoSortWithLimitPer ==
    \A i \in 1..Len(calls) :
        (Sent(i) /\ request.limitPer # Absent /\ request.order # Absent) =>
            ~Has(calls[i].params, "sort")

(***************************************************************************)
(* C21: the server lookup                                                  *)
(***************************************************************************)
\* this step is a process call
Processes == Len(calls') = Len(calls) + 1

\* the promise process returned in this step
Returns == calls'[Len(calls')]

C21_Configured == {"default", "other"}

\* C21: process for a request naming a server absent from config.servers
\* rejects with an Error whose message contains 'Server "<name>" not defined'
\* before a URL is selected and before a request is sent, so no round-robin
\* cursor advances; a request without a server field uses the server 'default'.
C21_UnknownServerRejected ==
    [][Processes =>
          /\ (request.server # Absent /\ request.server.s[1] \notin C21_Configured) =>
                 /\ Returns.state = "rejected"
                 /\ Returns.error.name = "Error"
                 /\ Returns.error.message = <<"Server \"", request.server.s[1], "\" not defined">>
                 /\ urls' = urls
                 /\ sent' = sent
                 /\ ~http'[Len(http')].made
          /\ request.server = Absent =>
                 /\ urls'["other"] = urls["other"]
                 /\ urls'["default"] # urls["default"]
                 /\ Returns.state = "pending" =>
                        Returns.url[1] = Servers["default"][urls["default"] + 1]]_vars

\* a call naming a missing server, then a call without a server that gets
\* the first URL of the default server
C21_Witness ==
    /\ Len(calls) = 2
    /\ calls[1].state = "rejected"
    /\ calls[1].error.message = <<"Server \"", "missing", "\" not defined">>
    /\ request.server = Absent
    /\ calls[2].state = "pending"
    /\ calls[2].url = <<"http://a.example.com/solr/", "article", "/select">>
    /\ Len(sent) = 1

(***************************************************************************)
(* C22, C25: how the promise of a call is settled                          *)
(***************************************************************************)
\* the response of call i has ended
Ended(i) == http[i].made /\ http[i].ended

Settled(i) == calls[i].state \in {"resolved", "rejected"}

C22_ValidJson == {"{}", "null", "{\"response\":{}}", "{\"response\":{\"numFound\":2,\"docs\":[7,9]}}"}

\* C22: when the response ends with a status of 400 or more, or with a body
\* that is not valid JSON, the promise is rejected with an Error and never
\* resolved; when the status is below 400 and the body is JSON with
\* response.numFound and response.docs, it is resolved with exactly
\* {totalCount: numFound, data: docs}; a settled promise never changes, also
\* when a timeout abort or a request error event follows.
C22_SettledByResponse ==
    /\ [](\A i \in 1..Len(calls) :
              Ended(i) =>
                  /\ (http[i].statusCode >= 400 \/ http[i].body \notin C22_ValidJson) =>
                         calls[i].state = "rejected" /\ calls[i].error.name = "Error"
                  /\ (/\ http[i].statusCode < 400
                      /\ http[i].body = "{\"response\":{\"numFound\":2,\"docs\":[7,9]}}") =>
                         calls[i] = [state |-> "resolved",
                                     value |-> [totalCount |-> Num(2),
                                                data |-> Arr(<<Num(7), Num(9)>>)]])
    /\ [][\A i \in 1..Len(calls) : Settled(i) => calls'[i] = calls[i]]_vars

\* a call that was resolved by its response and whose request emitted 'error' afterwards
C22_Witness ==
    /\ Len(calls) >= 1
    /\ Ended(1) /\ http[1].statusCode = 399 /\ http[1].errored
    /\ calls[1].state = "resolved"
    /\ calls[1].value.totalCount = Num(2)

\* C25: whenever the HTTP response of a process call ends, the promise of
\* that call eventually settles, also for a status below 400 with a body that
\* is valid JSON without a response object ({} or null).
C25_EndedThenSettled ==
    \A i \in 1..MaxCalls :
        (i <= Len(calls) /\ Ended(i)) ~> (i <= Len(calls) /\ Settled(i))

(***************************************************************************)
(* C23: composite keys next to other conditions                            *)
(***************************************************************************)
\* C23: a composite-key fragment with two or more rows that shares its
\* AND-group with another condition is enclosed in its own parentheses, so
\* that the ' OR ' between its rows is not at the nesting level of the
\* ' AND ' that joins the fragments of the group.
C23_CompositeParenthesised ==
    Compiled =>
        \A g \in 1..Len(filter) : \A i \in 1..Len(filter[g]) :
            (/\ IsArray(filter[g][i].attribute)
             /\ Len(filter[g][i].value.a) >= 2
             /\ Len(filter[g]) >= 2) =>
                Occurrences(compiled.conditions[g],
                            <<"(">> \o C8_Rows(filter[g][i].attribute.a, filter[g][i].value.a, 1)
                                \o <<")">>) >= 1

(***************************************************************************)
(* C24, C26: the round robin over the URLs of a server                     *)
(***************************************************************************)
C24_Urls == [default |-> <<"http://a.example.com/solr/", "http://b.example.com/solr/">>,
             other |-> <<"http://c.example.com/solr/">>]

\* the calls up to the i-th that named server and passed the server lookup
CallsTo(server, i) == {j \in 1..i : http[j].server = server}

\* the request the i-th call sent
SentBy(i) == sent[Cardinality({j \in 1..i : http[j].made})]

\* C24: for each configured server with URLs u[0..n-1], the k-th process call
\* that names the server and passes the lookup uses u[(k-1) mod n] followed by
\* the collection and '/select'; calls naming other servers and responses that
\* arrive or fail, in any order, do not change this.
C24_RoundRobin ==
    \A i \in 1..Len(calls) : \A server \in DOMAIN C24_Urls :
        (http[i].server = server /\ http[i].made) =>
            SentBy(i).url =
                <<C24_Urls[server][((Cardinality(CallsTo(server, i)) - 1) % Len(C24_Urls[server])) + 1],
                  "article", "/select">>

\* three calls to the default server, the third back at the first URL after
\* the first request failed and the second was answered
C24_Witness ==
    /\ Len(calls) = 3
    /\ \A i \in 1..3 : http[i].server = "default" /\ http[i].made
    /\ http[1].errored /\ http[2].ended
    /\ sent[3].url = <<"http://a.example.com/solr/", "article", "/select">>

\* call j is the first call after call i that named server and passed the lookup
NextOn(server, i, j) ==
    /\ i < j
    /\ http[j].server = server
    /\ \A m \in (i + 1)..(j - 1) : http[m].server # server

\* call i passed the lookup of server and failed with the unsupported-operator error
FailedOn(server, i) ==
    /\ http[i].server = server /\ ~http[i].made
    /\ calls[i].state = "rejected" /\ calls[i].error.name = "ImplementationError"

\* C26: a process call that fails with the unsupported-operator error has
\* advanced the round-robin cursor of its server: the URL it consumed is
\* skipped by the next call to that server although no request was sent, and
\* 'dataSourceQueries' is not incremented for the failed call.
C26_FailedCallConsumesUrl ==
    /\ queries = Cardinality({i \in 1..Len(http) : http[i].made})
    /\ Len(sent) = queries
    /\ \A i, j \in 1..Len(calls) : \A server \in DOMAIN C24_Urls :
           (FailedOn(server, i) /\ NextOn(server, i, j) /\ http[j].made) =>
               SentBy(j).url[1] =
                   C24_Urls[server][(Cardinality(CallsTo(server, i)) % Len(C24_Urls[server])) + 1]

\* the first call on the default server fails, the second is sent to the second URL
C26_Witness ==
    /\ Len(calls) = 2
    /\ FailedOn("default", 1)
    /\ http[2].server = "default" /\ http[2].made
    /\ sent = <<[url |-> <<"http://b.example.com/solr/", "article", "/select">>,
                 params |-> calls[2].params]>>
    /\ queries = 1

(***************************************************************************)
(* C27, C28: q is never empty; what process writes to the request          *)
(***************************************************************************)
EndsWith(s, suffix) ==
    Len(s) >= Len(suffix) /\ SubSeq(s, Len(s) - Len(suffix) + 1, Len(s)) = suffix

\* C27: for every request that process accepts, params.q is a non-empty
\* string made of non-empty fragments: it is never '' and never starts or ends
\* with ' AND ', also when queryAddition consists only of whitespace.
C27_QueryNeverEmpty ==
    \A i \in 1..Len(calls) :
        Sent(i) =>
            /\ calls[i].params.q.s # <<>>
            /\ ~StartsWith(calls[i].params.q.s, <<" ", "A", "N", "D", " ">>)
            /\ ~EndsWith(calls[i].params.q.s, <<" ", "A", "N", "D", " ">>)

\* C28: process writes to the caller's request object in two places only: it
\* sets request.limit to 1000000 when limit is absent or 0, so that a second
\* call on the same object sees 1000000, and it copies url and params into
\* request._explain when that field is present; filter, order, attributes,
\* search, page, limitPer and every other field are left unchanged.
C28_RequestWrites ==
    [][/\ \A field \in DOMAIN request \ {"limit", "_explain"} : request'[field] = request[field]
       /\ ~SendsRequest => request' = request
       /\ SendsRequest =>
              /\ request'.limit = IF request.limit = Absent \/ request.limit = Num(0)
                                  THEN Num(1000000) ELSE request.limit
              /\ IF request._explain = Absent THEN request'._explain = Absent
                 ELSE /\ request'._explain.o.url = calls'[Len(calls')].url
                      /\ request'._explain.o.params = SentParams]_vars

\* two calls on a request that came with _explain and without a limit
C28_Witness ==
    /\ Len(calls) = 2 /\ Sent(1) /\ Sent(2)
    /\ request.limit = Num(1000000)
    /\ request._explain # Absent
    /\ request._explain.o.url = calls[2].url
    /\ request._explain.o.params = calls[2].params
    /\ calls[2].params["rows"] = Num(1000000)

(***************************************************************************)
(* C29: the field-scoped search term                                       *)
(***************************************************************************)
RECURSIVE C29_Line(_)
\* the characters of s up to its first line terminator
C29_Line(s) ==
    IF Len(s) = 0 \/ Head(s) \in {"\n", "\r"} THEN <<>> ELSE <<Head(s)>> \o C29_Line(Tail(s))

\* the allow-list pattern matches the term
C29_FieldScoped(term) ==
    /\ C15_Colon(term) > 0
    /\ C15_Field(term) \in C15_Allowed
    /\ Len(C29_Line(C15_Rest(term))) > 0

\* C29: in the field-scoped branch of the search term the text after the first
\* colon is placed between the double quotes as it is: no reserved character
\* is escaped and no keyword lowercased, so a double quote of the term reaches
\* q without a backslash, also when exposeSolrSyntax is false.
C29_FieldScopedVerbatim ==
    \A i \in 1..Len(calls) :
        (/\ Sent(i) /\ HasSearch
         /\ request.filter = Absent /\ request.queryAddition = Absent
         /\ C29_FieldScoped(request.search.s)) =>
            calls[i].params.q.s =
                <<"(">> \o C15_Field(request.search.s) \o <<":", "\"">>
                    \o C29_Line(C15_Rest(request.search.s)) \o <<"\"", ")">>

\* a term with a double quote and a keyword after the colon, in default mode
C29_Witness ==
    /\ Len(calls) >= 1 /\ Sent(1)
    /\ request.search = Str(<<"a", ":", "\"", "O", "R">>)
    /\ request.exposeSolrSyntax = Absent
    /\ calls[1].params.q = Str(<<"(", "a", ":", "\"", "\"", "O", "R", "\"", ")">>)

(***************************************************************************)
(* C30: the operator of a composite-attribute condition                    *)
(***************************************************************************)
\* the condition stands alone in the expression, on a composite key, with a
\* supported operator
C30_CompositeAlone ==
    /\ Len(filter) = 1 /\ Len(filter[1]) = 1
    /\ IsArray(filter[1][1].attribute)
    /\ filter[1][1].operator \in SUPPORTED_FILTERS

\* C30: a composite-attribute condition renders the same equality row
\* disjunction for every supported operator: with notEqual, greaterOrEqual,
\* lessOrEqual or range the output is the output for equal, without negation
\* prefix, without range syntax and without error.
C30_OperatorIgnored ==
    (pc = "compiled" /\ C30_CompositeAlone) =>
        /\ ~compiled.threw
        /\ compiled.s = <<"(">> \o C8_Rows(filter[1][1].attribute.a, filter[1][1].value.a, 1)
                            \o <<")">>
        /\ compiled = buildSolrFilterString(<<<<[filter[1][1] EXCEPT !.operator = "equal"]>>>>,
                                            engine)

\* a notEqual condition on a composite key, rendered as the equality of its row
C30_Witness ==
    /\ pc = "compiled"
    /\ filter = <<<<Cond(compositeAB, "notEqual", Arr(<<Arr(<<Num(3), aColonB>>)>>))>>>>
    /\ ~compiled.threw
    /\ compiled.s = <<"(", "(", "a", ":", "3", " ", "A", "N", "D", " ",
                      "b", ":", "a", "\\", ":", "b", ")", ")">>

====
